---- MODULE Spec2Model ----
(***************************************************************************)
(* Model of the ChatVibe web client: the shared-key encryption helper      *)
(* (lib/encryption), the conversation view ChatWindow with the backend     *)
(* tables it reads and writes (direct_messages, typing_status) and its two *)
(* realtime subscriptions, the presence writes of ChatLayout in the tabs   *)
(* of one user, the contact list of ChatSidebar, the profile form of       *)
(* SettingsModal, and what each handler of the client does when its        *)
(* backend call fails.                                                     *)
(*                                                                         *)
(* The parts are checked as separate specifications over one set of        *)
(* variables: a specification moves the variables of its part and leaves   *)
(* the others at their initial values.                                     *)
(*                                                                         *)
(* Strings are sequences of one-character strings, so that trim(), the     *)
(* emptiness tests and the cipher's output format can be computed.         *)
(* An async handler is one action per stretch between its awaits; the      *)
(* typing-status upsert, which no handler awaits the effect of, takes      *)
(* effect in the step that issues it.                                      *)
(***************************************************************************)
EXTENDS Integers, Sequences, FiniteSets, TLC

(* ------------------------------ bounds --------------------------------- *)

\* longest plaintext handed to the encryption helper on its own
MaxPlainLen == 3
\* longest draft typed into the message input
MaxDraftLen == 1
\* number of rows the direct_messages table may hold
MaxMsgs == 2
\* number of fetchMessages requests in flight at once
MaxFetches == 1
\* number of typing timers pending at once
MaxTimers == 2
\* number of distinct salts the cipher draws from
NumSalts == 1
\* number of backend calls made in a row when the handlers are run one by one
MaxCalls == 2

(* ------------------------------ strings -------------------------------- *)

\* characters a user types
Alphabet == {"a", " "}

\* the random salts CryptoJS may draw for one encryption
SaltChars == <<"x", "y", "z">>
Salts == {SaltChars[i] : i \in 1..NumSalts}

RECURSIVE StringsUpTo(_)
StringsUpTo(n) ==
  IF n = 0 THEN {<<>>}
  ELSE LET shorter == StringsUpTo(n - 1)
       IN  shorter \cup {Append(s, c) : s \in {t \in shorter : Len(t) = n - 1}, c \in Alphabet}

Plaintexts == StringsUpTo(MaxPlainLen)
Drafts == StringsUpTo(MaxDraftLen)

RECURSIVE trimStart(_)
trimStart(s) ==
  IF s # <<>> /\ Head(s) = " " THEN trimStart(Tail(s)) ELSE s

RECURSIVE trimEnd(_)
trimEnd(s) ==
  IF s # <<>> /\ s[Len(s)] = " " THEN trimEnd(SubSeq(s, 1, Len(s) - 1)) ELSE s

\* String.prototype.trim
trim(s) == trimEnd(trimStart(s))

(* --------------------------- lib/encryption ---------------------------- *)

\* outcomes of one call into the cipher library
CipherOutcomes == {"ok", "throw"}

\* CryptoJS.AES.encrypt(message, ENCRYPTION_KEY).toString(): the OpenSSL
\* text format, a marker ("U2FsdGVkX1..."), the salt, then the body.
AESEncrypt(message, salt) == <<"U", salt>> \o message

IsCiphertext(c) == Len(c) >= 2 /\ c[1] = "U" /\ c[2] \in Salts

\* CryptoJS.AES.decrypt(c, ENCRYPTION_KEY).toString(CryptoJS.enc.Utf8): the
\* body of a well-formed ciphertext; the empty string for anything else
\* (no whole cipher block to decrypt).
AESDecrypt(c) == IF IsCiphertext(c) THEN SubSeq(c, 3, Len(c)) ELSE <<>>

\* result of a helper call: raised = an exception left the helper
Returned(v) == [raised |-> FALSE, value |-> v]
Raised == [raised |-> TRUE, value |-> <<>>]

encryptMessageNoCatch(message, salt, outcome) ==
  IF outcome = "throw" THEN Raised ELSE Returned(AESEncrypt(message, salt))

encryptMessage(message, salt, outcome) ==
  IF outcome = "throw"
  THEN Returned(message)
  ELSE Returned(AESEncrypt(message, salt))

decryptMessage(encryptedMessage, outcome) ==
  IF outcome = "throw"
  THEN Returned(encryptedMessage)
  ELSE LET decrypted == AESDecrypt(encryptedMessage)
       IN  Returned(IF decrypted # <<>> THEN decrypted ELSE encryptedMessage)

VARIABLES
  plain,      \* the string handed to encryptMessage
  encCall,    \* the encryptMessage call: its cipher outcome and its result
  decCall,    \* the decryptMessage call on that result
  callLog     \* backend calls made one by one, each with what its handler did

cryptoVars == <<plain, encCall, decCall, callLog>>

(* ------------------------------ backend -------------------------------- *)

\* the signed-in user of this client and the contacts of the sidebar
Me == "me"
Peers == {"p1", "p2"}
NoProfile == "none"

\* the browser tabs this user may have open
Tabs == {"t1", "t2"}

\* display names and bios a user may have; NoName: the auth metadata holds
\* no display_name
Names == {"", "Ann", "Bea"}
NoName == "undefined"
Bios == {"", "hi"}

\* no handleSaveProfile in progress
NoSave == [await |-> "none", displayName |-> "", bio |-> ""]

\* no fetchProfiles issued yet
NoFetch == [inFlight |-> FALSE, ok |-> FALSE, data |-> <<>>]

\* no updateUserStatus call made yet
NoRequest == [tab |-> "none", event |-> "none", status |-> "none", outcome |-> "ok"]

\* outcomes of one backend SDK call: a result without error, a result
\* carrying an error object, or a rejected promise
BackendOutcomes == {"ok", "error", "throw"}

\* a direct_messages row; the backend assigns id and created_at on insert,
\* both increasing in insertion order
Row(id, sender, receiver, content) ==
  [id |-> id, sender_id |-> sender, receiver_id |-> receiver, content |-> content]

\* the row filter shared by fetchMessages and the message subscription
InConversation(row, user, peer) ==
  \/ (row.sender_id = user /\ row.receiver_id = peer)
  \/ (row.sender_id = peer /\ row.receiver_id = user)

RECURSIVE SelectRows(_, _, _)
\* .select('*').or(filter).order('created_at', { ascending: true })
SelectRows(table, user, peer) ==
  IF table = <<>> THEN <<>>
  ELSE LET rest == SelectRows(Tail(table), user, peer)
       IN  IF InConversation(Head(table), user, peer)
           THEN <<Head(table)>> \o rest
           ELSE rest

InsertRowOverwriting(table, sender, receiver, content) ==
  IF table = <<>>
  THEN <<Row(1, sender, receiver, content)>>
  ELSE [table EXCEPT ![Len(table)] = Row(Len(table), sender, receiver, content)]
       \o <<Row(Len(table) + 1, sender, receiver, content)>>

\* .from('direct_messages').insert({sender_id, receiver_id, content})
InsertRow(table, sender, receiver, content) ==
  Append(table, Row(Len(table) + 1, sender, receiver, content))

Ids(list) == {list[i].id : i \in DOMAIN list}

(* ------------------------------ ChatWindow ----------------------------- *)

OnInsertNoCheck(prev, newRow) == Append(prev, newRow)

OnInsertPrepend(prev, newRow) ==
  IF \E i \in DOMAIN prev : prev[i].id = newRow.id
  THEN prev
  ELSE <<newRow>> \o prev

\* the updater the message subscription callback hands to setMessages
OnInsert(prev, newRow) ==
  IF \E i \in DOMAIN prev : prev[i].id = newRow.id
  THEN prev
  ELSE Append(prev, newRow)

(* --------------------- what a handler does on failure ------------------ *)

\* what a handler made of the outcome of its backend call: whether it wrote
\* to console.error, which error toast it showed ("generic": a fixed text,
\* "detail": the backend's error message), whether the rejection left it
Handled(logged, toast, unhandled) ==
  [logged |-> logged, toast |-> toast, unhandled |-> unhandled]

\* a step that logged nothing and showed no error toast
Quiet == Handled(FALSE, "none", FALSE)

\* if (error) throw error; catch: console.error, then the toast
LogAndToast(outcome) ==
  IF outcome = "ok" THEN Quiet ELSE Handled(TRUE, "generic", FALSE)

\* the error field of the result is not read; catch: console.error
LogRejectionOnly(outcome) ==
  IF outcome = "throw" THEN Handled(TRUE, "none", FALSE) ELSE Quiet

\* if (error) toast(error.message); catch: the toast, no console.error
ToastOnly(outcome) ==
  CASE outcome = "ok" -> Quiet
    [] outcome = "error" -> Handled(FALSE, "detail", FALSE)
    [] outcome = "throw" -> Handled(FALSE, "generic", FALSE)

\* a bare await: the error field is not read, a rejection leaves the handler
NotWrapped(outcome) ==
  IF outcome = "throw" THEN Handled(FALSE, "none", TRUE) ELSE Quiet

fetchMessagesCatch(outcome) == LogAndToast(outcome)

sendMessageCatchWithoutToast(outcome) == LogRejectionOnly(outcome)

sendMessageCatch(outcome) == LogAndToast(outcome)

updateTypingStatusCatch(outcome) == LogRejectionOnly(outcome)

updateUserStatusCatch(outcome) == LogRejectionOnly(outcome)

fetchProfilesCatch(outcome) == LogAndToast(outcome)

handleSaveProfileCatch(outcome) == LogAndToast(outcome)

handleSignUpCatch(outcome) == ToastOnly(outcome)

handleSignInCatch(outcome) == ToastOnly(outcome)

\* handleSignOut of ChatSidebar and of SettingsModal
handleSignOutSidebar(outcome) == NotWrapped(outcome)

handleSignOutSettings(outcome) == NotWrapped(outcome)

VARIABLES
  selectedProfile,   \* ChatLayout: user_id of the selected contact, or none
  messages,          \* ChatWindow: the local message list
  newMessage,        \* ChatWindow: the draft in the message input
  loading,           \* ChatWindow: a send is in progress
  direct_messages,   \* backend table, in insertion order
  typing_status,     \* backend table: is_typing of (Me, peer)
  notifications,     \* ids of inserted rows in flight to the subscription
  fetches,           \* fetchMessages requests in flight, oldest first
  sending,           \* the insert of sendMessage in flight
  timers,            \* pending setTimeout callbacks, oldest first
  last               \* what the latest step logged and which error toast it showed

VARIABLES
  channels,          \* the realtime subscriptions ChatWindow holds
  appended,          \* ids the message callback appended since the last selection
  isTyping,          \* ChatWindow: the typing indicator is shown
  typingFrom,        \* the contact whose notification set isTyping to true
  peer_typing,       \* backend table: is_typing of (peer, Me)
  typingNotes        \* typing_status notifications in flight to the subscription

typingVars == <<isTyping, typingFrom, peer_typing, typingNotes>>

\* the conversation view and the tables behind it
windowVars == <<selectedProfile, messages, newMessage, loading, direct_messages,
                typing_status, notifications, fetches, sending, timers,
                channels, appended, typingVars>>

chatVars == <<windowVars, last>>

VARIABLES
  tabs,              \* per browser tab of this user: its ChatLayout and page state
  status,            \* backend table profiles: status of this user's row
  statusReq,         \* the latest updateUserStatus call
  profilesTable,     \* backend table profiles: user_ids, latest last_seen first
  profiles,          \* ChatSidebar: the contact list
  sidebarLoading,    \* ChatSidebar: loading
  profileFetches,    \* fetchProfiles requests in flight, oldest first
  profileNotes,      \* profiles change notifications in flight
  newest             \* the fetchProfiles request issued last, and what came of it

presenceVars == <<tabs, status, statusReq>>

sidebarVars == <<profilesTable, profiles, sidebarLoading, profileFetches, profileNotes,
                 newest>>

VARIABLES
  displayName,           \* SettingsModal: the display name field
  bio,                   \* SettingsModal: the bio field
  bioEdited,             \* the bio field was edited since the modal mounted
  settingsLoading,       \* SettingsModal: loading
  saving,                \* handleSaveProfile in progress: its await and the values it holds
  saved,                 \* the toast of the latest handleSaveProfile
  profile_display_name,  \* backend table profiles: display_name of this user's row
  profile_bio,           \* backend table profiles: bio of this user's row
  auth_display_name      \* auth user metadata: display_name

settingsVars == <<displayName, bio, bioEdited, settingsLoading, saving, saved,
                  profile_display_name, profile_bio, auth_display_name>>

\* what no handler of ChatWindow touches
offChat == <<cryptoVars, presenceVars, sidebarVars, settingsVars>>

\* what the encryption helper and the failure handling on their own leave alone
views == <<chatVars, presenceVars, sidebarVars, settingsVars>>

NoSend == [status |-> "none", receiver |-> NoProfile, content |-> <<>>]



\* updateTypingStatus(typing) as issued by a closure that captured peer
UpsertTyping(table, peer, typing, outcome) ==
  IF outcome = "ok" THEN [table EXCEPT ![peer] = typing] ELSE table

\* rows the direct_messages table may still take, one kept for a send in flight
Room == MaxMsgs - Len(direct_messages) - (IF sending.status = "sent" THEN 1 ELSE 0)

\* a realtime subscription of ChatWindow: the table it listens to and the
\* contact its filter names
Channel(table, peer) == [table |-> table, peer |-> peer]

\* the contact of the conversation a direct_messages row belongs to
PeerOf(row) == IF row.sender_id = Me THEN row.receiver_id ELSE row.sender_id

\* the body of the ChatWindow effect after fetchMessages(): the message
\* subscription and the typing subscription of the rendered contact
Subscribe(chs, peer) ==
  chs \cup {Channel("direct_messages", peer), Channel("typing_status", peer)}

CleanupNothing(chs, peer) == chs

\* the function the effect returns, run before the effect runs again and on
\* unmount: both subscriptions of the render that created it are ended
Cleanup(chs, peer) ==
  chs \ {Channel("direct_messages", peer), Channel("typing_status", peer)}

\* an ended subscription runs no callback: what was in flight to it is lost
StillHeard(notes, chs) ==
  {id \in notes : Channel("direct_messages", PeerOf(direct_messages[id])) \in chs}

StillHeardTyping(notes, chs) ==
  {n \in notes : Channel("typing_status", n.peer) \in chs}

\* ChatLayout.handleSelectChat followed by the ChatWindow effect of the new
\* selectedProfile.user_id: cleanup of the old subscriptions, fetchMessages,
\* subscribe. Selecting the selected contact again re-runs nothing. The
\* component stays mounted: messages, newMessage, loading and isTyping keep
\* their values.
handleSelectChat(p) ==
  /\ p # selectedProfile
  /\ Len(fetches) < MaxFetches
  /\ selectedProfile' = p
  /\ channels' = Subscribe(Cleanup(channels, selectedProfile), p)
  /\ notifications' = StillHeard(notifications, channels')
  /\ typingNotes' = StillHeardTyping(typingNotes, channels')
  /\ appended' = {}
  /\ fetches' = Append(fetches, [peer |-> p, status |-> "sent", data |-> <<>>])
  /\ last' = Quiet
  /\ UNCHANGED <<messages, newMessage, loading, direct_messages, typing_status,
                 sending, timers>>
  /\ UNCHANGED <<isTyping, typingFrom, peer_typing, offChat>>

\* the backend runs the query of a fetchMessages request
FetchRespond(i) ==
  /\ fetches[i].status = "sent"
  /\ fetches' = [fetches EXCEPT ![i] =
       [peer |-> @.peer, status |-> "ok",
        data |-> SelectRows(direct_messages, Me, @.peer)]]
  /\ last' = Quiet
  /\ UNCHANGED <<selectedProfile, messages, newMessage, loading, direct_messages,
                 typing_status, notifications, sending, timers>>
  /\ UNCHANGED <<channels, appended, typingVars, offChat>>

RemoveAt(seq, i) == SubSeq(seq, 1, i - 1) \o SubSeq(seq, i + 1, Len(seq))

\* fetchMessages resumes after its await with the rows of the query
fetchMessages(i) ==
  /\ fetches[i].status = "ok"
  /\ messages' = fetches[i].data
  /\ fetches' = RemoveAt(fetches, i)
  /\ last' = fetchMessagesCatch("ok")
  /\ UNCHANGED <<selectedProfile, newMessage, loading, direct_messages,
                 typing_status, notifications, sending, timers>>
  /\ UNCHANGED <<channels, appended, typingVars, offChat>>

\* fetchMessages resumes after its await with an error result or a rejection
fetchMessagesFailed(i, outcome) ==
  /\ outcome # "ok"
  /\ fetches[i].status = "sent"
  /\ fetches' = RemoveAt(fetches, i)
  /\ last' = fetchMessagesCatch(outcome)
  /\ UNCHANGED <<selectedProfile, messages, newMessage, loading, direct_messages,
                 typing_status, notifications, sending, timers>>
  /\ UNCHANGED <<channels, appended, typingVars, offChat>>

\* the message subscription callback runs for a delivered notification; the
\* channel may deliver the same notification again
OnNotification(id, again) ==
  /\ id \in notifications
  /\ messages' = OnInsert(messages, direct_messages[id])
  /\ appended' = IF id \in Ids(messages) THEN appended ELSE appended \cup {id}
  /\ notifications' = IF again THEN notifications ELSE notifications \ {id}
  /\ last' = Quiet
  /\ UNCHANGED <<selectedProfile, newMessage, loading, direct_messages,
                 typing_status, fetches, sending, timers>>
  /\ UNCHANGED <<channels, typingVars, offChat>>

\* the realtime channel loses a notification
DropNotification(id) ==
  /\ id \in notifications
  /\ notifications' = notifications \ {id}
  /\ last' = Quiet
  /\ UNCHANGED <<selectedProfile, messages, newMessage, loading, direct_messages,
                 typing_status, fetches, sending, timers>>
  /\ UNCHANGED <<channels, appended, typingVars, offChat>>

\* the part of sendMessage before its await; the caller checked that the
\* trimmed draft is not empty
SendStart(salt, cipher) ==
  /\ loading' = TRUE
  /\ sending' = [status |-> "sent", receiver |-> selectedProfile,
                 content |-> encryptMessage(trim(newMessage), salt, cipher).value]

sendMessageOptimistic(salt, cipher) ==
  /\ selectedProfile # NoProfile
  /\ ~loading
  /\ trim(newMessage) # <<>>
  /\ Room > 0
  /\ SendStart(salt, cipher)
  /\ messages' = Append(messages,
       Row(Len(direct_messages) + 1, Me, selectedProfile,
           encryptMessage(trim(newMessage), salt, cipher).value))
  /\ last' = Quiet
  /\ UNCHANGED <<selectedProfile, newMessage, direct_messages,
                 typing_status, notifications, fetches, timers>>
  /\ UNCHANGED <<channels, appended, typingVars, offChat>>

\* the send button, enabled while not loading and the draft is not blank
sendMessage(salt, cipher) ==
  /\ selectedProfile # NoProfile
  /\ ~loading
  /\ trim(newMessage) # <<>>
  /\ Room > 0
  /\ SendStart(salt, cipher)
  /\ last' = Quiet
  /\ UNCHANGED <<selectedProfile, messages, newMessage, direct_messages,
                 typing_status, notifications, fetches, timers>>
  /\ UNCHANGED <<channels, appended, typingVars, offChat>>

\* Enter without Shift in the message input: sendMessage(), then
\* updateTypingStatus(false)
handleKeyPress(salt, cipher, outcome) ==
  /\ selectedProfile # NoProfile
  /\ ~loading
  /\ IF trim(newMessage) = <<>>
     THEN UNCHANGED <<loading, sending>>
     ELSE Room > 0 /\ SendStart(salt, cipher)
  /\ typing_status' = UpsertTyping(typing_status, selectedProfile, FALSE, outcome)
  /\ last' = updateTypingStatusCatch(outcome)
  /\ UNCHANGED <<selectedProfile, messages, newMessage, direct_messages,
                 notifications, fetches, timers>>
  /\ UNCHANGED <<channels, appended, typingVars, offChat>>

\* the backend stores the row of sendMessage and announces it to the
\* subscription when it passes the subscription's filter
InsertRespond ==
  /\ sending.status = "sent"
  /\ sending' = [sending EXCEPT !.status = "ok"]
  /\ direct_messages' =
       InsertRow(direct_messages, Me, sending.receiver, sending.content)
  /\ notifications' =
       IF Channel("direct_messages", sending.receiver) \in channels
       THEN notifications \cup {Len(direct_messages) + 1}
       ELSE notifications
  /\ last' = Quiet
  /\ UNCHANGED <<selectedProfile, messages, newMessage, loading, typing_status,
                 fetches, timers>>
  /\ UNCHANGED <<channels, appended, typingVars, offChat>>

SendDoneRefetching ==
  /\ sending.status = "ok"
  /\ newMessage' = <<>>
  /\ loading' = FALSE
  /\ sending' = NoSend
  /\ fetches' = Append(fetches, [peer |-> selectedProfile, status |-> "sent", data |-> <<>>])
  /\ last' = sendMessageCatch("ok")
  /\ UNCHANGED <<selectedProfile, messages, direct_messages, typing_status,
                 notifications, timers>>
  /\ UNCHANGED <<channels, appended, typingVars, offChat>>

\* sendMessage resumes after its await, the insert done
SendDone ==
  /\ sending.status = "ok"
  /\ newMessage' = <<>>
  /\ loading' = FALSE
  /\ sending' = NoSend
  /\ last' = sendMessageCatch("ok")
  /\ UNCHANGED <<selectedProfile, messages, direct_messages, typing_status,
                 notifications, fetches, timers>>
  /\ UNCHANGED <<channels, appended, typingVars, offChat>>

SendFailedClearingDraft(outcome) ==
  /\ outcome # "ok"
  /\ sending.status = "sent"
  /\ newMessage' = <<>>
  /\ loading' = FALSE
  /\ sending' = NoSend
  /\ last' = sendMessageCatch(outcome)
  /\ UNCHANGED <<selectedProfile, messages, direct_messages,
                 typing_status, notifications, fetches, timers>>
  /\ UNCHANGED <<channels, appended, typingVars, offChat>>

\* sendMessage resumes after its await with an error result or a rejection
SendFailed(outcome) ==
  /\ outcome # "ok"
  /\ sending.status = "sent"
  /\ loading' = FALSE
  /\ sending' = NoSend
  /\ last' = sendMessageCatch(outcome)
  /\ UNCHANGED <<selectedProfile, messages, newMessage, direct_messages,
                 typing_status, notifications, fetches, timers>>
  /\ UNCHANGED <<channels, appended, typingVars, offChat>>

\* the condition the timeout callback tests, on the values its closure holds
TimerClears(value, capturedNewMessage) == value = capturedNewMessage

handleInputChangeDebounced(value, outcome) ==
  /\ selectedProfile # NoProfile
  /\ ~loading
  /\ value # newMessage
  /\ Len(timers) < MaxTimers
  /\ newMessage' = value
  /\ typing_status' = UpsertTyping(typing_status, selectedProfile, Len(value) > 0, outcome)
  /\ timers' = <<[clears |-> TimerClears(value, newMessage), peer |-> selectedProfile]>>
  /\ last' = updateTypingStatusCatch(outcome)
  /\ UNCHANGED <<selectedProfile, messages, loading, direct_messages,
                 notifications, fetches, sending>>
  /\ UNCHANGED <<channels, appended, typingVars, offChat>>

\* onChange of the message input: the input is enabled while not loading and
\* the event carries a value that differs from the rendered draft. The
\* timeout callback closes over value and over the newMessage of the render
\* that created this handler, the draft before the change.
handleInputChange(value, outcome) ==
  /\ selectedProfile # NoProfile
  /\ ~loading
  /\ value # newMessage
  /\ Len(timers) < MaxTimers
  /\ newMessage' = value
  /\ typing_status' = UpsertTyping(typing_status, selectedProfile, Len(value) > 0, outcome)
  /\ timers' = Append(timers, [clears |-> TimerClears(value, newMessage),
                               peer |-> selectedProfile])
  /\ last' = updateTypingStatusCatch(outcome)
  /\ UNCHANGED <<selectedProfile, messages, loading, direct_messages,
                 notifications, fetches, sending>>
  /\ UNCHANGED <<channels, appended, typingVars, offChat>>

\* the oldest pending timeout fires, 3 seconds after it was scheduled
TimerFire(outcome) ==
  /\ timers # <<>>
  /\ timers' = Tail(timers)
  /\ IF Head(timers).clears
     THEN /\ typing_status' = UpsertTyping(typing_status, Head(timers).peer, FALSE, outcome)
          /\ last' = updateTypingStatusCatch(outcome)
     ELSE /\ outcome = "ok"
          /\ UNCHANGED typing_status
          /\ last' = Quiet
  /\ UNCHANGED <<selectedProfile, messages, newMessage, loading, direct_messages,
                 notifications, fetches, sending>>
  /\ UNCHANGED <<channels, appended, typingVars, offChat>>

\* the client of a contact, its cipher working, sends a message to this user
PeerSend(p, text, salt) ==
  /\ Room > 0
  /\ direct_messages' =
       InsertRow(direct_messages, p, Me, encryptMessage(text, salt, "ok").value)
  /\ notifications' =
       IF Channel("direct_messages", p) \in channels
       THEN notifications \cup {Len(direct_messages) + 1}
       ELSE notifications
  /\ last' = Quiet
  /\ UNCHANGED <<selectedProfile, messages, newMessage, loading, typing_status,
                 fetches, sending, timers>>
  /\ UNCHANGED <<channels, appended, typingVars, offChat>>

\* what the conversation shows: every entry decrypted at display time
Rendered ==
  [i \in DOMAIN messages |-> decryptMessage(messages[i].content, "ok").value]

(* --------------------------- typing indicator -------------------------- *)

\* the client of a contact upserts its typing_status row for the conversation
\* with this user; the backend announces the change to a subscription whose
\* filter names that contact
PeerTyping(p, typing) ==
  /\ peer_typing' = [peer_typing EXCEPT ![p] = typing]
  /\ typingNotes' =
       IF Channel("typing_status", p) \in channels
       THEN typingNotes \cup {[peer |-> p, is_typing |-> typing]}
       ELSE typingNotes
  /\ last' = Quiet
  /\ UNCHANGED <<selectedProfile, messages, newMessage, loading, direct_messages,
                 typing_status, notifications, fetches, sending, timers>>
  /\ UNCHANGED <<channels, appended, isTyping, typingFrom, offChat>>

\* the typing subscription callback: setIsTyping(payload.new.is_typing)
OnTypingNotification(n) ==
  /\ n \in typingNotes
  /\ isTyping' = n.is_typing
  /\ typingFrom' = IF n.is_typing THEN n.peer ELSE NoProfile
  /\ typingNotes' = typingNotes \ {n}
  /\ last' = Quiet
  /\ UNCHANGED <<selectedProfile, messages, newMessage, loading, direct_messages,
                 typing_status, notifications, fetches, sending, timers>>
  /\ UNCHANGED <<channels, appended, peer_typing, offChat>>

\* the realtime channel loses a typing notification
DropTypingNotification(n) ==
  /\ n \in typingNotes
  /\ typingNotes' = typingNotes \ {n}
  /\ last' = Quiet
  /\ UNCHANGED <<selectedProfile, messages, newMessage, loading, direct_messages,
                 typing_status, notifications, fetches, sending, timers>>
  /\ UNCHANGED <<channels, appended, isTyping, typingFrom, peer_typing, offChat>>

(* ------------------------- presence (ChatLayout) ----------------------- *)

StatusValues == {"online", "away", "offline"}

\* updateUserStatus(status): the update of this user's profiles row, which
\* takes effect when the backend accepts it
updateUserStatus(stored, requested, outcome) ==
  IF outcome = "ok" THEN requested ELSE stored

Request(t, event, requested, outcome) ==
  [tab |-> t, event |-> event, status |-> requested, outcome |-> outcome]

StatusOnVisibilityChangeAlwaysOnline(hidden) == "online"

\* handleVisibilityChange: the status requested for the new document.hidden
StatusOnVisibilityChange(hidden) == IF hidden THEN "away" ELSE "online"

BeforeUnloadStatusHandingOver(others) ==
  IF "visible" \in others THEN "online" ELSE "offline"

\* handleBeforeUnload: the status requested, whatever the other tabs of the
\* user (others: their page states) are doing
BeforeUnloadStatus(others) == "offline"

\* the pages of the other tabs of the user
OtherTabs(t) == {tabs[u] : u \in Tabs \ {t}}

\* a tab signs in and mounts ChatLayout, its page shown or in the background:
\* the presence effect requests online and adds its listeners
Mount(t, hidden, outcome) ==
  /\ tabs[t] = "closed"
  /\ tabs' = [tabs EXCEPT ![t] = IF hidden THEN "hidden" ELSE "visible"]
  /\ status' = updateUserStatus(status, "online", outcome)
  /\ statusReq' = Request(t, "mount", "online", outcome)
  /\ last' = updateUserStatusCatch(outcome)
  /\ UNCHANGED <<windowVars, cryptoVars, sidebarVars, settingsVars>>

\* visibilitychange in a tab whose ChatLayout is mounted
handleVisibilityChange(t, outcome) ==
  /\ tabs[t] # "closed"
  /\ LET hidden == tabs[t] = "visible"
     IN  /\ tabs' = [tabs EXCEPT ![t] = IF hidden THEN "hidden" ELSE "visible"]
         /\ status' = updateUserStatus(status, StatusOnVisibilityChange(hidden), outcome)
         /\ statusReq' = Request(t, "visibilitychange", StatusOnVisibilityChange(hidden), outcome)
  /\ last' = updateUserStatusCatch(outcome)
  /\ UNCHANGED <<windowVars, cryptoVars, sidebarVars, settingsVars>>

\* beforeunload in a tab whose ChatLayout is mounted; the page then unloads
handleBeforeUnload(t, outcome) ==
  /\ tabs[t] # "closed"
  /\ tabs' = [tabs EXCEPT ![t] = "closed"]
  /\ status' = updateUserStatus(status, BeforeUnloadStatus(OtherTabs(t)), outcome)
  /\ statusReq' = Request(t, "beforeunload", BeforeUnloadStatus(OtherTabs(t)), outcome)
  /\ last' = updateUserStatusCatch(outcome)
  /\ UNCHANGED <<windowVars, cryptoVars, sidebarVars, settingsVars>>

\* ChatLayout unmounts in a tab that stays open: the cleanup of the presence
\* effect requests offline and removes the listeners
Unmount(t, outcome) ==
  /\ tabs[t] # "closed"
  /\ tabs' = [tabs EXCEPT ![t] = "closed"]
  /\ status' = updateUserStatus(status, "offline", outcome)
  /\ statusReq' = Request(t, "unmount", "offline", outcome)
  /\ last' = updateUserStatusCatch(outcome)
  /\ UNCHANGED <<windowVars, cryptoVars, sidebarVars, settingsVars>>

(* ------------------------ contact list (ChatSidebar) ------------------- *)

\* number of fetchProfiles requests in flight at once
MaxProfileFetches == 2
\* number of profiles change notifications in flight at once
MaxProfileNotes == 1

SelectProfilesUnfiltered(table, user) == table

\* .select('*').neq('user_id', user).order('last_seen', { ascending: false })
\* on a table kept with the latest last_seen first
SelectProfiles(table, user) == SelectSeq(table, LAMBDA u : u # user)

\* the row of user u is inserted or updated (its status and last_seen, its
\* names): it now has the latest last_seen, and the change is announced
ProfileChange(u) ==
  /\ profileNotes < MaxProfileNotes
  /\ profilesTable' = <<u>> \o SelectSeq(profilesTable, LAMBDA v : v # u)
  /\ profileNotes' = profileNotes + 1
  /\ last' = Quiet
  /\ UNCHANGED <<profiles, sidebarLoading, profileFetches, newest>>
  /\ UNCHANGED <<windowVars, cryptoVars, presenceVars, settingsVars>>

\* the profiles subscription callback: () => fetchProfiles()
OnProfilesChange ==
  /\ profileNotes > 0
  /\ Len(profileFetches) < MaxProfileFetches
  /\ profileNotes' = profileNotes - 1
  /\ profileFetches' = Append(profileFetches, [status |-> "sent", data |-> <<>>])
  /\ newest' = [inFlight |-> TRUE, ok |-> FALSE, data |-> <<>>]
  /\ last' = Quiet
  /\ UNCHANGED <<profilesTable, profiles, sidebarLoading>>
  /\ UNCHANGED <<windowVars, cryptoVars, presenceVars, settingsVars>>

\* the realtime channel loses a profiles change notification
DropProfilesChange ==
  /\ profileNotes > 0
  /\ profileNotes' = profileNotes - 1
  /\ last' = Quiet
  /\ UNCHANGED <<profilesTable, profiles, sidebarLoading, profileFetches, newest>>
  /\ UNCHANGED <<windowVars, cryptoVars, presenceVars, settingsVars>>

\* the backend runs the query of a fetchProfiles request
ProfilesRespond(i) ==
  /\ profileFetches[i].status = "sent"
  /\ profileFetches' = [profileFetches EXCEPT ![i] =
       [status |-> "ok", data |-> SelectProfiles(profilesTable, Me)]]
  /\ last' = Quiet
  /\ UNCHANGED <<profilesTable, profiles, sidebarLoading, profileNotes, newest>>
  /\ UNCHANGED <<windowVars, cryptoVars, presenceVars, settingsVars>>

\* whether request i of those in flight is the one issued last
IsNewest(i) == newest.inFlight /\ i = Len(profileFetches)

\* fetchProfiles resumes after its await with the rows of the query
fetchProfiles(i) ==
  /\ profileFetches[i].status = "ok"
  /\ profiles' = profileFetches[i].data
  /\ newest' = IF IsNewest(i)
               THEN [inFlight |-> FALSE, ok |-> TRUE, data |-> profileFetches[i].data]
               ELSE newest
  /\ sidebarLoading' = FALSE
  /\ profileFetches' = RemoveAt(profileFetches, i)
  /\ last' = fetchProfilesCatch("ok")
  /\ UNCHANGED <<profilesTable, profileNotes>>
  /\ UNCHANGED <<windowVars, cryptoVars, presenceVars, settingsVars>>

\* fetchProfiles resumes after its await with an error result or a rejection
fetchProfilesFailed(i, outcome) ==
  /\ outcome # "ok"
  /\ profileFetches[i].status = "sent"
  /\ newest' = IF IsNewest(i)
               THEN [inFlight |-> FALSE, ok |-> FALSE, data |-> <<>>]
               ELSE newest
  /\ sidebarLoading' = FALSE
  /\ profileFetches' = RemoveAt(profileFetches, i)
  /\ last' = fetchProfilesCatch(outcome)
  /\ UNCHANGED <<profilesTable, profiles, profileNotes>>
  /\ UNCHANGED <<windowVars, cryptoVars, presenceVars, settingsVars>>

(* ---------------------- encryption helper on its own ------------------- *)


NoCall == [called |-> FALSE, outcome |-> "ok", raised |-> FALSE, value |-> <<>>]

CallOf(outcome, result) ==
  [called |-> TRUE, outcome |-> outcome, raised |-> result.raised, value |-> result.value]

\* any bounded plaintext, no helper called yet; no conversation view mounted
CryptoInit ==
  /\ plain \in Plaintexts
  /\ encCall = NoCall
  /\ decCall = NoCall
  /\ callLog = <<>>
  /\ selectedProfile = NoProfile
  /\ messages = <<>>
  /\ newMessage = <<>>
  /\ loading = FALSE
  /\ direct_messages = <<>>
  /\ typing_status = [p \in Peers |-> FALSE]
  /\ notifications = {}
  /\ fetches = <<>>
  /\ sending = NoSend
  /\ timers = <<>>
  /\ last = Quiet
  /\ channels = {}
  /\ appended = {}
  /\ isTyping = FALSE
  /\ typingFrom = NoProfile
  /\ peer_typing = [p \in Peers |-> FALSE]
  /\ typingNotes = {}
  /\ tabs = [t \in Tabs |-> "closed"]
  /\ status = "offline"
  /\ statusReq = NoRequest
  /\ profilesTable = <<Me>>
  /\ profiles = <<>>
  /\ sidebarLoading = TRUE
  /\ profileFetches = <<>>
  /\ profileNotes = 0
  /\ newest = NoFetch
  /\ displayName = ""
  /\ bio = ""
  /\ bioEdited = FALSE
  /\ settingsLoading = FALSE
  /\ saving = NoSave
  /\ saved = "none"
  /\ profile_display_name = ""
  /\ profile_bio = ""
  /\ auth_display_name = ""

CryptoEncrypt ==
  /\ ~encCall.called
  /\ \E salt \in Salts, outcome \in CipherOutcomes :
       encCall' = CallOf(outcome, encryptMessage(plain, salt, outcome))
  /\ UNCHANGED <<plain, decCall, callLog>>
  /\ UNCHANGED views

CryptoDecrypt ==
  /\ encCall.called
  /\ ~encCall.raised
  /\ ~decCall.called
  /\ \E outcome \in CipherOutcomes :
       decCall' = CallOf(outcome, decryptMessage(encCall.value, outcome))
  /\ UNCHANGED <<plain, encCall, callLog>>
  /\ UNCHANGED views

CryptoNext == CryptoEncrypt \/ CryptoDecrypt

vars == <<cryptoVars, chatVars, presenceVars, sidebarVars, settingsVars>>

\* the encryption helper applied to every bounded plaintext
SpecCrypto == CryptoInit /\ [][CryptoNext]_vars

\* C1: for every string s, the empty string included, decrypting the result
\* of encrypting s returns s (both cipher calls working).
RoundTrip ==
  (decCall.called /\ encCall.outcome = "ok" /\ decCall.outcome = "ok")
    => decCall.value = plain

\* C5: encryptMessage and decryptMessage never raise to their caller, and a
\* call whose cipher threw returns the helper's input unchanged.
HelpersNeverRaise ==
  /\ encCall.called =>
       /\ ~encCall.raised
       /\ encCall.outcome = "throw" => encCall.value = plain
  /\ decCall.called =>
       /\ ~decCall.raised
       /\ decCall.outcome = "throw" => decCall.value = encCall.value

\* both helpers ran with a throwing cipher and handed their input back
HelpersFellBack ==
  /\ encCall.called /\ encCall.outcome = "throw" /\ encCall.value = plain
  /\ decCall.called /\ decCall.outcome = "throw" /\ decCall.value = plain
  /\ plain # <<>>

(* ------------------------------ the client ----------------------------- *)

\* the ChatLayout just mounted, no contact selected, the tables empty
Init ==
  /\ selectedProfile = NoProfile
  /\ messages = <<>>
  /\ newMessage = <<>>
  /\ loading = FALSE
  /\ direct_messages = <<>>
  /\ typing_status = [p \in Peers |-> FALSE]
  /\ notifications = {}
  /\ fetches = <<>>
  /\ sending = NoSend
  /\ timers = <<>>
  /\ last = Quiet
  /\ plain = <<>>
  /\ encCall = NoCall
  /\ decCall = NoCall
  /\ callLog = <<>>
  /\ channels = {}
  /\ appended = {}
  /\ isTyping = FALSE
  /\ typingFrom = NoProfile
  /\ peer_typing = [p \in Peers |-> FALSE]
  /\ typingNotes = {}
  /\ tabs = [t \in Tabs |-> "closed"]
  /\ status = "offline"
  /\ statusReq = NoRequest
  /\ profilesTable = <<Me>>
  /\ profiles = <<>>
  /\ sidebarLoading = TRUE
  /\ profileFetches = <<>>
  /\ profileNotes = 0
  /\ newest = NoFetch
  /\ displayName = ""
  /\ bio = ""
  /\ bioEdited = FALSE
  /\ settingsLoading = FALSE
  /\ saving = NoSave
  /\ saved = "none"
  /\ profile_display_name = ""
  /\ profile_bio = ""
  /\ auth_display_name = ""

\* the drafts a contact may send: trimmed and not blank
PeerTexts == {trim(d) : d \in Drafts} \ {<<>>}

Next ==
  \/ \E p \in Peers : handleSelectChat(p)
  \/ \E i \in DOMAIN fetches : FetchRespond(i)
  \/ \E i \in DOMAIN fetches : fetchMessages(i)
  \/ \E i \in DOMAIN fetches, outcome \in BackendOutcomes : fetchMessagesFailed(i, outcome)
  \/ \E id \in notifications, again \in BOOLEAN : OnNotification(id, again)
  \/ \E id \in notifications : DropNotification(id)
  \/ \E salt \in Salts, cipher \in CipherOutcomes : sendMessage(salt, cipher)
  \/ \E salt \in Salts, cipher \in CipherOutcomes, outcome \in BackendOutcomes :
       handleKeyPress(salt, cipher, outcome)
  \/ InsertRespond
  \/ SendDone
  \/ \E outcome \in BackendOutcomes : SendFailed(outcome)
  \/ \E value \in Drafts, outcome \in BackendOutcomes : handleInputChange(value, outcome)
  \/ \E outcome \in BackendOutcomes : TimerFire(outcome)
  \/ \E p \in Peers, text \in PeerTexts, salt \in Salts : PeerSend(p, text, salt)

Spec == Init /\ [][Next]_vars


(* ------------------------- the typing indicator ------------------------ *)

TypingNext ==
  \/ \E p \in Peers : handleSelectChat(p)
  \/ \E i \in DOMAIN fetches : FetchRespond(i)
  \/ \E i \in DOMAIN fetches : fetchMessages(i)
  \/ \E i \in DOMAIN fetches, outcome \in BackendOutcomes : fetchMessagesFailed(i, outcome)
  \/ \E p \in Peers, typing \in BOOLEAN : PeerTyping(p, typing)
  \/ \E n \in typingNotes : OnTypingNotification(n)
  \/ \E n \in typingNotes : DropTypingNotification(n)
  \/ \E p \in Peers, text \in PeerTexts, salt \in Salts : PeerSend(p, text, salt)
  \/ \E id \in notifications, again \in BOOLEAN : OnNotification(id, again)
  \/ \E id \in notifications : DropNotification(id)

\* the conversation view as a receiver: the contacts send and type, this
\* user only selects conversations
SpecTyping == Init /\ [][TypingNext]_vars

\* C13: a mounted ChatWindow holds exactly one message subscription and one
\* typing subscription, both for the selected contact; a change of the
\* selected contact ends the two of the previous contact, so every
\* notification still to be handled belongs to the selected conversation.
OnePairOfSubscriptions ==
  /\ channels = IF selectedProfile = NoProfile THEN {}
                ELSE {Channel("direct_messages", selectedProfile),
                      Channel("typing_status", selectedProfile)}
  /\ Cardinality(channels) \in {0, 2}
  /\ \A id \in notifications : PeerOf(direct_messages[id]) = selectedProfile
  /\ \A n \in typingNotes : n.peer = selectedProfile

\* after a switch from p1 to p2: a row and a typing flag of p1 whose
\* notifications ended with p1's subscriptions, a notification of p2 in flight
SwitchedWithNotificationsPending ==
  /\ selectedProfile = "p2"
  /\ peer_typing["p1"]
  /\ \E id \in DOMAIN direct_messages :
       /\ direct_messages[id].sender_id = "p1"
       /\ id \notin Ids(messages)
       /\ id \notin notifications
  /\ typingNotes = {[peer |-> "p2", is_typing |-> TRUE]}

\* C20: the typing indicator is shown only if the latest typing notification
\* handled was one of the selected contact and carried is_typing = true; a
\* true received for an earlier contact is not shown after the selection
\* changed.
IndicatorIsOfSelectedPeer ==
  isTyping => typingFrom = selectedProfile

(* ------------------------------- presence ------------------------------ *)

\* no tab of the user open; the profile holds the status some earlier
\* session wrote last
PresenceInit ==
  /\ tabs = [t \in Tabs |-> "closed"]
  /\ status \in StatusValues
  /\ statusReq = NoRequest
  /\ profilesTable = <<Me>>
  /\ profiles = <<>>
  /\ sidebarLoading = TRUE
  /\ profileFetches = <<>>
  /\ profileNotes = 0
  /\ newest = NoFetch
  /\ displayName = ""
  /\ bio = ""
  /\ bioEdited = FALSE
  /\ settingsLoading = FALSE
  /\ saving = NoSave
  /\ saved = "none"
  /\ profile_display_name = ""
  /\ profile_bio = ""
  /\ auth_display_name = ""
  /\ selectedProfile = NoProfile
  /\ messages = <<>>
  /\ newMessage = <<>>
  /\ loading = FALSE
  /\ direct_messages = <<>>
  /\ typing_status = [p \in Peers |-> FALSE]
  /\ notifications = {}
  /\ fetches = <<>>
  /\ sending = NoSend
  /\ timers = <<>>
  /\ last = Quiet
  /\ channels = {}
  /\ appended = {}
  /\ isTyping = FALSE
  /\ typingFrom = NoProfile
  /\ peer_typing = [p \in Peers |-> FALSE]
  /\ typingNotes = {}
  /\ plain = <<>>
  /\ encCall = NoCall
  /\ decCall = NoCall
  /\ callLog = <<>>

PresenceNext ==
  \/ \E t \in Tabs, hidden \in BOOLEAN, outcome \in BackendOutcomes : Mount(t, hidden, outcome)
  \/ \E t \in Tabs, outcome \in BackendOutcomes : handleVisibilityChange(t, outcome)
  \/ \E t \in Tabs, outcome \in BackendOutcomes : handleBeforeUnload(t, outcome)
  \/ \E t \in Tabs, outcome \in BackendOutcomes : Unmount(t, outcome)

\* ChatLayout in the tabs of one user
SpecPresence == PresenceInit /\ [][PresenceNext]_vars

\* C11: every status the client writes to this user's profiles row is one of
\* online, away, offline, and the value requested follows the event: online
\* on mount and when the page becomes visible, away when the page becomes
\* hidden, offline on beforeunload and on unmount of ChatLayout.
StatusFollowsEvents ==
  /\ status \in StatusValues
  /\ statusReq.event # "none" =>
       /\ statusReq.status \in StatusValues
       /\ statusReq.event = "mount" => statusReq.status = "online"
       /\ statusReq.event = "visibilitychange" =>
            statusReq.status =
              IF tabs[statusReq.tab] = "hidden" THEN "away" ELSE "online"
       /\ statusReq.event \in {"beforeunload", "unmount"} =>
            statusReq.status = "offline"
       /\ statusReq.outcome = "ok" => status = statusReq.status

\* a page was hidden and away was stored for it
AwayStoredForHiddenPage ==
  /\ statusReq.event = "visibilitychange"
  /\ statusReq.outcome = "ok"
  /\ tabs[statusReq.tab] = "hidden"
  /\ status = "away"

\* the steps in which a tab mounts ChatLayout or its page becomes visible
TabComesUp(t) ==
  \/ tabs[t] = "closed" /\ tabs'[t] # "closed"
  \/ tabs[t] = "hidden" /\ tabs'[t] = "visible"

\* C15: with two tabs of the user, hiding one stores away and closing one
\* stores offline whatever the other tab shows, and a stored status other
\* than online becomes online only in a step in which some tab mounts or
\* becomes visible: a tab that is and stays visible restores nothing.
TabsNotReconciled ==
  [][/\ \A t \in Tabs :
          (tabs[t] = "visible" /\ tabs'[t] = "hidden" /\ statusReq'.outcome = "ok")
            => status' = "away"
     /\ \A t \in Tabs :
          (tabs[t] # "closed" /\ tabs'[t] = "closed" /\ statusReq'.outcome = "ok")
            => status' = "offline"
     /\ (status # "online" /\ status' = "online") =>
          \E t \in Tabs : TabComesUp(t)]_vars

\* one tab was closed, offline is stored, the other tab is open and visible
OfflineWhileVisibleTab ==
  /\ status = "offline"
  /\ tabs["t1"] = "visible"
  /\ tabs["t2"] = "closed"
  /\ statusReq = Request("t2", "beforeunload", "offline", "ok")

(* ----------------------------- contact list ---------------------------- *)

\* everyone who may have a profiles row
Users == {Me} \cup Peers

\* ChatSidebar just mounted: its effect called fetchProfiles and subscribed;
\* the table holds the row of this user
SidebarInit ==
  /\ profilesTable = <<Me>>
  /\ profiles = <<>>
  /\ sidebarLoading = TRUE
  /\ profileFetches = <<[status |-> "sent", data |-> <<>>]>>
  /\ profileNotes = 0
  /\ newest = [inFlight |-> TRUE, ok |-> FALSE, data |-> <<>>]
  /\ displayName = ""
  /\ bio = ""
  /\ bioEdited = FALSE
  /\ settingsLoading = FALSE
  /\ saving = NoSave
  /\ saved = "none"
  /\ profile_display_name = ""
  /\ profile_bio = ""
  /\ auth_display_name = ""
  /\ tabs = [t \in Tabs |-> "closed"]
  /\ status = "offline"
  /\ statusReq = NoRequest
  /\ selectedProfile = NoProfile
  /\ messages = <<>>
  /\ newMessage = <<>>
  /\ loading = FALSE
  /\ direct_messages = <<>>
  /\ typing_status = [p \in Peers |-> FALSE]
  /\ notifications = {}
  /\ fetches = <<>>
  /\ sending = NoSend
  /\ timers = <<>>
  /\ last = Quiet
  /\ channels = {}
  /\ appended = {}
  /\ isTyping = FALSE
  /\ typingFrom = NoProfile
  /\ peer_typing = [p \in Peers |-> FALSE]
  /\ typingNotes = {}
  /\ plain = <<>>
  /\ encCall = NoCall
  /\ decCall = NoCall
  /\ callLog = <<>>

SidebarNext ==
  \/ \E u \in Users : ProfileChange(u)
  \/ OnProfilesChange
  \/ DropProfilesChange
  \/ \E i \in DOMAIN profileFetches : ProfilesRespond(i)
  \/ \E i \in DOMAIN profileFetches : fetchProfiles(i)
  \/ \E i \in DOMAIN profileFetches, outcome \in BackendOutcomes : fetchProfilesFailed(i, outcome)

\* ChatSidebar and the profiles table
SpecSidebar == SidebarInit /\ [][SidebarNext]_vars

\* C17: the contact list never holds this user's own profile, after the
\* initial fetch and after every re-fetch a profiles change notification
\* triggers; nor do the rows of a query still to be applied.
NoOwnProfileInContacts ==
  /\ \A i \in DOMAIN profiles : profiles[i] # Me
  /\ \A k \in DOMAIN profileFetches :
       \A i \in DOMAIN profileFetches[k].data : profileFetches[k].data[i] # Me

\* this user's row changed last, and the re-fetch of that change listed both
\* contacts
RefetchedAfterOwnChange ==
  /\ Len(profilesTable) = 3
  /\ profilesTable[1] = Me
  /\ profileFetches = <<>>
  /\ profileNotes = 0
  /\ profiles = SubSeq(profilesTable, 2, 3)

\* C23: with several fetchProfiles requests in flight, one per change
\* notification, and their responses applied in any order, once all have
\* completed the contact list is the result of the request issued last.
ContactsAreOfNewestFetch ==
  (profileFetches = <<>> /\ newest.ok) => profiles = newest.data

(* --------------------- profile settings (SettingsModal) ---------------- *)

\* currentUser?.user_metadata?.display_name || ""
OrEmpty(v) == IF v = NoName \/ v = "" THEN "" ELSE v

\* onChange of the display name field
setDisplayName(v) ==
  /\ v # displayName
  /\ displayName' = v
  /\ last' = Quiet
  /\ UNCHANGED <<bio, bioEdited, settingsLoading, saving, saved,
                 profile_display_name, profile_bio, auth_display_name>>
  /\ UNCHANGED <<windowVars, cryptoVars, presenceVars, sidebarVars>>

\* onChange of the bio field
setBio(v) ==
  /\ v # bio
  /\ bio' = v
  /\ bioEdited' = TRUE
  /\ last' = Quiet
  /\ UNCHANGED <<displayName, settingsLoading, saving, saved,
                 profile_display_name, profile_bio, auth_display_name>>
  /\ UNCHANGED <<windowVars, cryptoVars, presenceVars, sidebarVars>>

\* the Save Changes button, enabled while not loading: handleSaveProfile up
\* to its first await, holding the displayName and bio of the render that
\* created it
handleSaveProfile ==
  /\ ~settingsLoading
  /\ settingsLoading' = TRUE
  /\ saving' = [await |-> "profiles.update", displayName |-> displayName, bio |-> bio]
  /\ last' = Quiet
  /\ UNCHANGED <<displayName, bio, bioEdited, saved,
                 profile_display_name, profile_bio, auth_display_name>>
  /\ UNCHANGED <<windowVars, cryptoVars, presenceVars, sidebarVars>>

\* the profiles update is answered and handleSaveProfile resumes: on success
\* the row holds the display_name and bio sent, and the auth update is
\* issued; otherwise catch and finally run
ProfilesUpdateRespond(outcome) ==
  /\ saving.await = "profiles.update"
  /\ IF outcome = "ok"
     THEN /\ profile_display_name' = saving.displayName
          /\ profile_bio' = saving.bio
          /\ saving' = [saving EXCEPT !.await = "auth.updateUser"]
          /\ last' = Quiet
          /\ UNCHANGED <<settingsLoading, saved>>
     ELSE /\ saving' = NoSave
          /\ saved' = "failure"
          /\ settingsLoading' = FALSE
          /\ last' = handleSaveProfileCatch(outcome)
          /\ UNCHANGED <<profile_display_name, profile_bio>>
  /\ UNCHANGED <<displayName, bio, bioEdited, auth_display_name>>
  /\ UNCHANGED <<windowVars, cryptoVars, presenceVars, sidebarVars>>

\* auth.updateUser is answered and handleSaveProfile resumes: on success the
\* metadata holds the display_name sent and the success toast is shown;
\* otherwise catch runs; finally in both cases
AuthUpdateRespond(outcome) ==
  /\ saving.await = "auth.updateUser"
  /\ auth_display_name' =
       IF outcome = "ok" THEN saving.displayName ELSE auth_display_name
  /\ saved' = IF outcome = "ok" THEN "success" ELSE "failure"
  /\ saving' = NoSave
  /\ settingsLoading' = FALSE
  /\ last' = handleSaveProfileCatch(outcome)
  /\ UNCHANGED <<displayName, bio, bioEdited, profile_display_name, profile_bio>>
  /\ UNCHANGED <<windowVars, cryptoVars, presenceVars, sidebarVars>>

\* SettingsModal just mounted for a user whose two display names agree; the
\* profile holds any bio
SettingsInit ==
  /\ auth_display_name \in Names \cup {NoName}
  /\ profile_display_name = OrEmpty(auth_display_name)
  /\ profile_bio \in Bios
  /\ displayName = OrEmpty(auth_display_name)
  /\ bio = ""
  /\ bioEdited = FALSE
  /\ settingsLoading = FALSE
  /\ saving = NoSave
  /\ saved = "none"
  /\ selectedProfile = NoProfile
  /\ messages = <<>>
  /\ newMessage = <<>>
  /\ loading = FALSE
  /\ direct_messages = <<>>
  /\ typing_status = [p \in Peers |-> FALSE]
  /\ notifications = {}
  /\ fetches = <<>>
  /\ sending = NoSend
  /\ timers = <<>>
  /\ last = Quiet
  /\ channels = {}
  /\ appended = {}
  /\ isTyping = FALSE
  /\ typingFrom = NoProfile
  /\ peer_typing = [p \in Peers |-> FALSE]
  /\ typingNotes = {}
  /\ plain = <<>>
  /\ encCall = NoCall
  /\ decCall = NoCall
  /\ callLog = <<>>
  /\ tabs = [t \in Tabs |-> "closed"]
  /\ status = "offline"
  /\ statusReq = NoRequest
  /\ profilesTable = <<Me>>
  /\ profiles = <<>>
  /\ sidebarLoading = TRUE
  /\ profileFetches = <<>>
  /\ profileNotes = 0
  /\ newest = NoFetch

SettingsNext ==
  \/ \E v \in Names : setDisplayName(v)
  \/ \E v \in Bios : setBio(v)
  \/ handleSaveProfile
  \/ \E outcome \in BackendOutcomes : ProfilesUpdateRespond(outcome)
  \/ \E outcome \in BackendOutcomes : AuthUpdateRespond(outcome)

\* SettingsModal with the profiles row and the auth metadata of its user
SpecSettings == SettingsInit /\ [][SettingsNext]_vars

\* C21: after handleSaveProfile finished, with success or with failure, the
\* display name of the profiles row and the display name of the auth
\* metadata are equal: a failed save leaves no partial update.
NamesAgreeAfterSave ==
  (saving = NoSave /\ saved # "none") =>
    profile_display_name = OrEmpty(auth_display_name)

\* C22: a save made without editing the bio field leaves the bio of the
\* profiles row as it was.
BioKeptUnlessEdited ==
  [][~bioEdited => profile_bio' = profile_bio]_vars

(* -------------------- the handlers run one by one ---------------------- *)

\* every backend call of the client, with the handler that makes it
BackendCalls == {
  <<"AuthForm.handleSignUp", "auth.signUp">>,
  <<"AuthForm.handleSignIn", "auth.signInWithPassword">>,
  <<"ChatSidebar.handleSignOut", "auth.signOut">>,
  <<"SettingsModal.handleSignOut", "auth.signOut">>,
  <<"SettingsModal.handleSaveProfile", "profiles.update">>,
  <<"SettingsModal.handleSaveProfile", "auth.updateUser">>,
  <<"ChatLayout.updateUserStatus", "profiles.update">>,
  <<"ChatSidebar.fetchProfiles", "profiles.select">>,
  <<"ChatWindow.fetchMessages", "direct_messages.select">>,
  <<"ChatWindow.sendMessage", "direct_messages.insert">>,
  <<"ChatWindow.updateTypingStatus", "typing_status.upsert">> }

\* the handling of each handler
HandlerCatch(handler, outcome) ==
  CASE handler = "AuthForm.handleSignUp" -> handleSignUpCatch(outcome)
    [] handler = "AuthForm.handleSignIn" -> handleSignInCatch(outcome)
    [] handler = "ChatSidebar.handleSignOut" -> handleSignOutSidebar(outcome)
    [] handler = "SettingsModal.handleSignOut" -> handleSignOutSettings(outcome)
    [] handler = "SettingsModal.handleSaveProfile" -> handleSaveProfileCatch(outcome)
    [] handler = "ChatLayout.updateUserStatus" -> updateUserStatusCatch(outcome)
    [] handler = "ChatSidebar.fetchProfiles" -> fetchProfilesCatch(outcome)
    [] handler = "ChatWindow.fetchMessages" -> fetchMessagesCatch(outcome)
    [] handler = "ChatWindow.sendMessage" -> sendMessageCatch(outcome)
    [] handler = "ChatWindow.updateTypingStatus" -> updateTypingStatusCatch(outcome)

\* a handler runs and its backend call ends with the given outcome
HandlerCall(c, outcome) ==
  /\ Len(callLog) < MaxCalls
  /\ callLog' = Append(callLog,
       [handler |-> c[1], call |-> c[2], outcome |-> outcome,
        did |-> HandlerCatch(c[1], outcome)])
  /\ UNCHANGED <<plain, encCall, decCall>>
  /\ UNCHANGED views

CallsNext == \E c \in BackendCalls, outcome \in BackendOutcomes : HandlerCall(c, outcome)

\* every backend-calling handler of the client, with every outcome of its call
CallsInit ==
  /\ callLog = <<>>
  /\ plain = <<>>
  /\ encCall = NoCall
  /\ decCall = NoCall
  /\ selectedProfile = NoProfile
  /\ messages = <<>>
  /\ newMessage = <<>>
  /\ loading = FALSE
  /\ direct_messages = <<>>
  /\ typing_status = [p \in Peers |-> FALSE]
  /\ notifications = {}
  /\ fetches = <<>>
  /\ sending = NoSend
  /\ timers = <<>>
  /\ last = Quiet
  /\ channels = {}
  /\ appended = {}
  /\ isTyping = FALSE
  /\ typingFrom = NoProfile
  /\ peer_typing = [p \in Peers |-> FALSE]
  /\ typingNotes = {}
  /\ tabs = [t \in Tabs |-> "closed"]
  /\ status = "offline"
  /\ statusReq = NoRequest
  /\ profilesTable = <<Me>>
  /\ profiles = <<>>
  /\ sidebarLoading = TRUE
  /\ profileFetches = <<>>
  /\ profileNotes = 0
  /\ newest = NoFetch
  /\ displayName = ""
  /\ bio = ""
  /\ bioEdited = FALSE
  /\ settingsLoading = FALSE
  /\ saving = NoSave
  /\ saved = "none"
  /\ profile_display_name = ""
  /\ profile_bio = ""
  /\ auth_display_name = ""

SpecCalls == CallsInit /\ [][CallsNext]_vars

\* C6: every backend call of the client is wrapped so that its failure is
\* logged and a generic error toast is shown.
EveryFailureLoggedAndToasted ==
  \A i \in DOMAIN callLog :
    callLog[i].outcome # "ok" =>
      callLog[i].did.logged /\ callLog[i].did.toast = "generic"

LoggedAndToasted == {"ChatWindow.fetchMessages", "ChatWindow.sendMessage",
                     "ChatSidebar.fetchProfiles", "SettingsModal.handleSaveProfile"}
ToastedOnly == {"AuthForm.handleSignUp", "AuthForm.handleSignIn"}
NeverToasted == {"ChatWindow.updateTypingStatus", "ChatLayout.updateUserStatus"}
Unwrapped == {"ChatSidebar.handleSignOut", "SettingsModal.handleSignOut"}

\* C6, amended: a failed message select or insert, profile select or profile
\* save is logged and a generic error toast is shown; a failed sign-up or
\* sign-in shows an error toast and is not logged; a failed typing-status
\* upsert or status update shows no toast and is logged only when the call
\* rejects; a failed sign-out is neither logged nor shown, and its rejection
\* leaves the handler.
FailureHandlingByHandler ==
  \A i \in DOMAIN callLog :
    LET e == callLog[i] IN
    e.outcome # "ok" =>
      /\ e.handler \in LoggedAndToasted =>
           e.did.logged /\ e.did.toast = "generic" /\ ~e.did.unhandled
      /\ e.handler \in ToastedOnly =>
           ~e.did.logged /\ e.did.toast # "none" /\ ~e.did.unhandled
      /\ e.handler \in NeverToasted =>
           /\ e.did.toast = "none" /\ ~e.did.unhandled
           /\ e.did.logged <=> e.outcome = "throw"
      /\ e.handler \in Unwrapped =>
           /\ ~e.did.logged /\ e.did.toast = "none"
           /\ e.did.unhandled <=> e.outcome = "throw"

\* a failed insert was logged and shown, a failed typing-status upsert was not
FailedInsertAndFailedUpsert ==
  /\ Len(callLog) = 2
  /\ callLog[1].handler = "ChatWindow.sendMessage" /\ callLog[1].outcome = "error"
  /\ callLog[1].did.logged /\ callLog[1].did.toast = "generic"
  /\ callLog[2].handler = "ChatWindow.updateTypingStatus" /\ callLog[2].outcome = "error"
  /\ ~callLog[2].did.logged /\ callLog[2].did.toast = "none"

(* ------------------------- the conversation view ----------------------- *)

\* C2: whatever insert notifications are delivered, repeated ones and ones
\* for rows fetchMessages already loaded included, no two entries of the
\* local message list have the same id.
NoDuplicateIds ==
  \A i, j \in DOMAIN messages : i # j => messages[i].id # messages[j].id

\* a row is in the list while a notification carrying its id is in flight
DuplicateNotificationPending ==
  \E id \in notifications : id \in Ids(messages)

\* the steps in which the message subscription callback runs
CallbackStep(id) == \E again \in BOOLEAN : OnNotification(id, again)

\* C9: a notification for an id not in the list appends its record at the
\* end, the earlier entries and their order kept; a notification for an id
\* in the list leaves the list as it was.
CallbackAppendsAtEnd ==
  [][\A id \in notifications :
       CallbackStep(id) =>
         IF id \in Ids(messages)
         THEN messages' = messages
         ELSE /\ Len(messages') = Len(messages) + 1
              /\ SubSeq(messages', 1, Len(messages)) = messages
              /\ messages'[Len(messages')] = direct_messages[id]]_vars

\* two notifications were appended in the order of their delivery, the later
\* row first
AppendedOutOfIdOrder ==
  /\ Len(messages) = 2
  /\ messages[1].id = 2
  /\ messages[2].id = 1

\* the steps in which fetchMessages stores the rows of its query
RefetchStep == \E i \in DOMAIN fetches : fetchMessages(i)

\* C7: a row whose notification is not delivered stays out of the local list
\* until a fetchMessages completes with rows, and a fetchMessages is issued
\* only by a change of the selected contact.
MissedUntilRefetch ==
  [][/\ \A id \in DOMAIN direct_messages :
          (id \notin Ids(messages) /\ id \in Ids(messages')) =>
            \/ id \in notifications /\ CallbackStep(id)
            \/ RefetchStep
     /\ \A id \in DOMAIN direct_messages :
          (id \notin notifications /\ id \notin Ids(messages) /\ id \in Ids(messages'))
            => RefetchStep
     /\ Len(fetches') > Len(fetches) => selectedProfile' # selectedProfile]_vars

\* a row of the selected conversation is stored, is not in the list, has no
\* notification in flight, and no fetch is in flight
RowMissedForGood ==
  \E id \in DOMAIN direct_messages :
    /\ InConversation(direct_messages[id], Me, selectedProfile)
    /\ id \notin Ids(messages)
    /\ id \notin notifications
    /\ fetches = <<>>

\* the steps of a send: the button, the Enter key, the backend's insert, the
\* resumption of sendMessage
SendStep ==
  \/ \E salt \in Salts, cipher \in CipherOutcomes : sendMessage(salt, cipher)
  \/ \E salt \in Salts, cipher \in CipherOutcomes, outcome \in BackendOutcomes :
       handleKeyPress(salt, cipher, outcome)
  \/ InsertRespond
  \/ SendDone
  \/ \E outcome \in BackendOutcomes : SendFailed(outcome)

\* C8: no step of a send changes the local message list, and a row enters the
\* list only after the backend stored it, in a subscription callback or in a
\* fetchMessages.
SendLeavesListAlone ==
  [][/\ SendStep => messages' = messages
     /\ \A i \in DOMAIN messages' :
          messages'[i].id \notin Ids(messages) =>
            /\ messages'[i].id \in DOMAIN direct_messages
            /\ messages'[i] = direct_messages[messages'[i].id]
            /\ (\E id \in notifications : CallbackStep(id)) \/ RefetchStep]_vars

\* a message this user sent is in the local list, its send completed
OwnMessageListed ==
  /\ \E i \in DOMAIN messages : messages[i].sender_id = Me
  /\ sending = NoSend

\* C10: the direct_messages table only grows and a stored row never changes;
\* the only write is the insert of a sendMessage.
TableOnlyGrows ==
  [][/\ Len(direct_messages') >= Len(direct_messages)
     /\ SubSeq(direct_messages', 1, Len(direct_messages)) = direct_messages
     /\ direct_messages' # direct_messages =>
          \/ InsertRespond
          \/ \E p \in Peers, text \in PeerTexts, salt \in Salts : PeerSend(p, text, salt)]_vars

\* the table took a second row after a first
TableGrewTwice ==
  /\ Len(direct_messages) = 2
  /\ direct_messages[1].sender_id = Me

\* C4: the content of every row sendMessage stored is the shared-key
\* ciphertext of a trimmed draft, never the typed plaintext.
StoredContentIsCiphertext ==
  \A id \in DOMAIN direct_messages :
    direct_messages[id].sender_id = Me =>
      /\ IsCiphertext(direct_messages[id].content)
      /\ AESDecrypt(direct_messages[id].content) \in PeerTexts

\* C3: when the last pending timeout of the message input fires (no input
\* came after the change that scheduled it), the stored is_typing of the
\* conversation it was scheduled in is false.
TypingClearedByTimer ==
  [][(Len(timers) = 1 /\ TimerFire("ok")) =>
       typing_status'[Head(timers).peer] = FALSE]_vars

\* the steps in which the message input changes
InputStep(value, outcome) == handleInputChange(value, outcome)

\* C12: each input change issues one typing_status upsert with is_typing =
\* (the new value is not empty) and adds one timer behind the pending ones;
\* a pending timer leaves only by firing, oldest first: not on further
\* input, not on a send, not on a change of conversation.
TimersNeverCancelled ==
  [][/\ \A value \in Drafts, outcome \in BackendOutcomes :
          InputStep(value, outcome) =>
            /\ Len(timers') = Len(timers) + 1
            /\ SubSeq(timers', 1, Len(timers)) = timers
            /\ timers'[Len(timers')].peer = selectedProfile
            /\ outcome = "ok" => typing_status'[selectedProfile] = (value # <<>>)
            /\ \A p \in Peers \ {selectedProfile} : typing_status'[p] = typing_status[p]
     /\ timers' # timers =>
          \/ \E value \in Drafts, outcome \in BackendOutcomes : InputStep(value, outcome)
          \/ (\E outcome \in BackendOutcomes : TimerFire(outcome)) /\ timers' = Tail(timers)]_vars

\* two input changes left two timers pending, the first of them scheduled in
\* a conversation that is no longer selected, while a send is in progress
TwoTimersAcrossSwitchAndSend ==
  /\ Len(timers) = 2
  /\ timers[1].peer # selectedProfile
  /\ timers[2].peer = selectedProfile
  /\ loading

\* C14: every entry of the local message list is a message between this user
\* and the selected contact, also right after a change of conversation, after
\* a failed fetch for the new conversation, and after a fetch of an earlier
\* conversation completed late.
ListIsOfSelectedConversation ==
  \A i \in DOMAIN messages : InConversation(messages[i], Me, selectedProfile)

\* the steps in which sendMessage, started on a non-blank draft, completes
SendCompletes == sending # NoSend /\ sending' = NoSend

\* C16: when sendMessage completes, loading is false whatever the outcome;
\* the draft is cleared if and only if the insert succeeded, and is otherwise
\* kept as typed; an error toast is shown if and only if the insert failed.
SendOutcomeShown ==
  [][SendCompletes =>
       /\ loading /\ ~loading'
       /\ (newMessage' = <<>>) <=> (sending.status = "ok")
       /\ sending.status # "ok" => newMessage' = newMessage
       /\ (last'.toast # "none") <=> (sending.status # "ok")]_vars

\* a send of this user completed with its row stored and the draft cleared
SentAndDraftCleared ==
  /\ \E id \in DOMAIN direct_messages : direct_messages[id].sender_id = Me
  /\ sending = NoSend
  /\ ~loading
  /\ newMessage = <<>>
  /\ last = sendMessageCatch("ok")

\* C18: a message the subscription callback appended stays in the local list
\* for as long as the same conversation is selected, also when a
\* fetchMessages response is applied after the notification.
NotifiedMessagesStay ==
  appended \subseteq Ids(messages)

(* ------------------- sending, with the backend at work ----------------- *)

\* this user types, sends and changes conversation; the backend accepts
\* every typing_status upsert; no contact writes
SendNext ==
  \/ \E p \in Peers : handleSelectChat(p)
  \/ \E i \in DOMAIN fetches : FetchRespond(i)
  \/ \E i \in DOMAIN fetches : fetchMessages(i)
  \/ \E i \in DOMAIN fetches, outcome \in BackendOutcomes : fetchMessagesFailed(i, outcome)
  \/ \E id \in notifications, again \in BOOLEAN : OnNotification(id, again)
  \/ \E id \in notifications : DropNotification(id)
  \/ \E salt \in Salts, cipher \in CipherOutcomes : sendMessage(salt, cipher)
  \/ \E salt \in Salts, cipher \in CipherOutcomes : handleKeyPress(salt, cipher, "ok")
  \/ InsertRespond
  \/ SendDone
  \/ \E outcome \in BackendOutcomes : SendFailed(outcome)
  \/ \E value \in Drafts : handleInputChange(value, "ok")
  \/ TimerFire("ok")

\* a pending timeout fires, the backend answers the insert and the query it
\* received, and an awaiting sendMessage or fetchMessages resumes once its
\* request is answered
SpecSend ==
  /\ Init
  /\ [][SendNext]_vars
  /\ WF_vars(TimerFire("ok"))
  /\ WF_vars(InsertRespond)
  /\ WF_vars(SendDone)
  /\ WF_vars(\E i \in DOMAIN fetches : FetchRespond(i))
  /\ WF_vars(\E i \in DOMAIN fetches : fetchMessages(i))

\* the user typed again after the latest send completed (the input is
\* disabled during a send and empty after a successful one)
TypedAgain == sending = NoSend /\ newMessage # <<>>

\* C19: once the insert of a send succeeded, by the send button or by the
\* Enter key, the stored typing flag of this user for that conversation is
\* false at some later point, unless the user types again first.
SentThenTypingCleared ==
  \A p \in Peers :
    (sending.status = "ok" /\ sending.receiver = p)
      ~> (typing_status[p] = FALSE \/ TypedAgain)

====
